---- MODULE Spec2Model ----
(***************************************************************************)
(* Model of the lab lifecycle manager of jupyterlab-controller             *)
(* (services/lab.py, handlers/labs.py, models/v1/lab.py), of the secret    *)
(* merge of a lab's create (services/lab.py) and of the prepull executor   *)
(* (services/prepuller.py).                                                *)
(*                                                                         *)
(* Every request is a task running on one asyncio event loop.  A task runs *)
(* without interruption from one real suspension point (a call to the      *)
(* Kubernetes API) to the next, so every action below is one such stretch  *)
(* of code; the answer of the cluster is the input of the next stretch.    *)
(***************************************************************************)
EXTENDS Integers, Sequences, FiniteSets, TLC

\* ---------------------------------------------------------------- bounds
\* number of requests (tasks) the model lets arrive
MaxTasks == 2
\* number of create_user_namespace frames a task may stack up
MaxDepth == 7

\* number of secret references config.lab.secrets may hold
MaxSecrets == 2

\* number of image entries the nodes report in all
MaxEntries == 3

\* number of images an inventory lists
MaxImages == 3

\* ------------------------------------------------------------- constants
\* services/lab.py:73
ns_max_retries == 5

Tasks == 1..MaxTasks

\* the usernames with a lab (tests/settings.py:42) ...
Users == {"rachel"}

\* ... and the usernames a token can belong to (tests/settings.py:42,54)
TokenUsers == {"rachel", "wrench"}

\* models/v1/lab.py:28-32
LabStatus == {"starting", "running", "terminating", "failed"}

\* models/v1/lab.py:35-37
PodState == {"present", "missing"}

\* the supporting objects create_user_lab_objects spawns a job for
LabObjects == {"secret", "nss", "env", "network_policy", "quota"}

\* tests/conftest.py:130 and tests/utils_test.py:36-38: the namespace of a
\* user's lab is "<prefix>-<username>"; a name is kept as its segments.
get_user_namespace(u) == <<"userlabs", u>>

VARIABLES
    user_map,    \* dict username -> record (nublado.user_map)
    pc,          \* where each task is suspended
    op,          \* the operation a task runs: "create" or "delete"
    usr,         \* the username a task acts on
    result,      \* how a finished task ended
    calls,       \* per task, the cluster calls it issued, in order
    ns_retries,  \* local ns_retries of the task's current frame
    depth,       \* number of nested create_user_namespace frames
    objs,        \* per task, the fate of the five supporting-object jobs
    token_user   \* per create task, the username its token belongs to

lab_vars == <<user_map, pc, op, usr, result, calls, ns_retries, depth, objs,
              token_user>>

VARIABLES
    secret_list,  \* config.lab.secrets: the configured secret references
    cluster_secrets, \* the keys of each source secret of the cluster
    token,        \* context.token, the caller's user token
    sec_pc,       \* where the create_secrets job is suspended
    secret_names, \* the names merge_controller_secrets has still to read
    reads,        \* the read_secret calls issued, in order
    base64_data,  \* the dict merge_controller_secrets builds
    sec_result,   \* how the create_secrets job ended
    user_secret   \* the data of the secret created for the user, if any

secret_vars == <<secret_list, cluster_secrets, token, sec_pc, secret_names,
                 reads, base64_data, sec_result, user_secret>>

VARIABLES
    present,      \* the nodes each image of the cluster is on
    eligible,     \* the nodes whose Node.eligible is set
    schedulers,   \* PrepullExecutor.schedulers: image path -> scheduler
    stopping,     \* the executor's `stopping`
    xpc,          \* where the executor's run() is suspended
    cur,          \* the image whose scheduler the tick is closing
    todo,         \* the keys of required_pulls the tick has still to visit
    pods,         \* the pull pods the latest tick spawned
    xresult       \* how run() ended

prepull_vars == <<present, eligible, schedulers, stopping, xpc, cur, todo,
                  pods, xresult>>

VARIABLES
    all_images_by_node, \* the reply of get_image_data: node -> entries
    enabled_nodes, \* the nodes whose Node.eligible is set
    config_cycle, \* config.cycle
    inv_pc,       \* where get_current_image_and_node_state stands
    image_list,   \* what _construct_current_image_state returned
    enabled_prepulled_images, \* the list the snapshot returns
    node_cache    \* the nodes the snapshot returns

inventory_vars == <<all_images_by_node, enabled_nodes, config_cycle, inv_pc,
                    image_list, enabled_prepulled_images, node_cache>>

VARIABLES
    tag_counts,   \* config.numReleases, numWeeklies, numDailies
    menu_pc,      \* where get_menu_images stands
    desired_menu, \* the dict of filter_node_images_to_desired_menu
    menu_images,  \* the dict get_menu_images returns
    prepulls      \* the images of the status get_prepulls returns

menu_vars == <<tag_counts, menu_pc, desired_menu, menu_images, prepulls>>

VARIABLES
    config_aliases, \* config.aliasTags as Tag.from_tag gets it
    tagobjs,      \* the Tag objects at hand
    compared,     \* compare(a, b) for each two of them
    all_tags,     \* TagList.all_tags
    former_tags,  \* all_tags as it was when sort_all_tags was called
    sort_pc       \* where sort_all_tags stands

compare_vars == <<config_aliases, tagobjs, compared, all_tags, former_tags,
                  sort_pc>>

image_vars == <<inventory_vars, menu_vars, compare_vars>>

\* the variables no lab operation touches
other_vars == <<secret_vars, prepull_vars, image_vars>>

vars == <<lab_vars, other_vars>>

\* UserData.new_from_user_resources: a fresh record
new_from_user_resources ==
    [status |-> "starting", pod |-> "missing", events |-> <<>>]

\* UserData.from_components: the records a test context starts with
from_components(status, pod) ==
    [status |-> status, pod |-> pod, events |-> <<>>]

\* a check_for_user that never finds the record
check_for_user_never(u) == FALSE

\* LabManager.check_for_user
check_for_user(u) == u \in DOMAIN user_map

\* user_map[u] = rec
MapSet(m, u, rec) ==
    [x \in DOMAIN m \cup {u} |-> IF x = u THEN rec ELSE m[x]]

\* del user_map[u]
MapDel(m, u) == [x \in DOMAIN m \ {u} |-> m[x]]

Call(api, name) == <<api, name>>

NoJobs == [o \in LabObjects |-> "unspawned"]

LabInit ==
    /\ \E S \in SUBSET Users :
          user_map = [u \in S |-> from_components("running", "present")]
    /\ pc = [t \in Tasks |-> "idle"]
    /\ op = [t \in Tasks |-> "none"]
    /\ usr = [t \in Tasks |-> "none"]
    /\ result = [t \in Tasks |-> "none"]
    /\ calls = [t \in Tasks |-> <<>>]
    /\ ns_retries = [t \in Tasks |-> 0]
    /\ depth = [t \in Tasks |-> 0]
    /\ objs = [t \in Tasks |-> NoJobs]
    /\ token_user = [t \in Tasks |-> "none"]

\* no create_secrets job is running
SecretsIdle ==
    /\ secret_list = <<>>
    /\ cluster_secrets = [n \in {} |-> {}]
    /\ token = "none"
    /\ sec_pc = "unspawned"
    /\ secret_names = <<>>
    /\ reads = <<>>
    /\ base64_data = [k \in {} |-> <<>>]
    /\ sec_result = "none"
    /\ user_secret = <<>>

\* no prepull executor exists
PrepullIdle ==
    /\ present = [i \in {} |-> {}]
    /\ eligible = {}
    /\ schedulers = [k \in {} |-> {}]
    /\ stopping = FALSE
    /\ xpc = "unstarted"
    /\ cur = <<>>
    /\ todo = <<>>
    /\ pods = {}
    /\ xresult = "none"

\* nothing asks for the inventory
InventoryIdle ==
    /\ all_images_by_node = <<>>
    /\ enabled_nodes = {}
    /\ config_cycle = <<>>
    /\ inv_pc = "unasked"
    /\ image_list = <<>>
    /\ enabled_prepulled_images = <<>>
    /\ node_cache = <<>>

\* no menu is asked for
MenuIdle ==
    /\ tag_counts = [t \in {} |-> 0]
    /\ menu_pc = "unasked"
    /\ desired_menu = <<>>
    /\ menu_images = <<>>
    /\ prepulls = <<>>

\* no tags are compared
CompareIdle ==
    /\ config_aliases = {}
    /\ tagobjs = <<>>
    /\ compared = <<>>
    /\ all_tags = <<>>
    /\ former_tags = <<>>
    /\ sort_pc = "uncalled"

\* no image is looked at
ImagesIdle == InventoryIdle /\ MenuIdle /\ CompareIdle

\* no request has arrived: the state of LabInit with an empty user map
LabIdle ==
    /\ user_map = [u \in {} |-> new_from_user_resources]
    /\ pc = [t \in Tasks |-> "idle"]
    /\ op = [t \in Tasks |-> "none"]
    /\ usr = [t \in Tasks |-> "none"]
    /\ result = [t \in Tasks |-> "none"]
    /\ calls = [t \in Tasks |-> <<>>]
    /\ ns_retries = [t \in Tasks |-> 0]
    /\ depth = [t \in Tasks |-> 0]
    /\ objs = [t \in Tasks |-> NoJobs]
    /\ token_user = [t \in Tasks |-> "none"]

Init == LabInit /\ SecretsIdle /\ PrepullIdle /\ ImagesIdle

\* a task ends: raise (res is the error) or return (res = "ok")
Finish(t, res) ==
    /\ pc' = [pc EXCEPT ![t] = "done"]
    /\ result' = [result EXCEPT ![t] = res]

\* ------------------------------------------------------------------ create

\* create_user_namespace, from its entry to the await of create_namespace:
\* a new frame whose local ns_retries starts at 0
create_user_namespace(t, u) ==
    /\ ns_retries' = [ns_retries EXCEPT ![t] = 0]
    /\ depth' = [depth EXCEPT ![t] = @ + 1]
    /\ calls' = [calls EXCEPT
                   ![t] = Append(@, Call("create_namespace",
                                         get_user_namespace(u)))]
    /\ pc' = [pc EXCEPT ![t] = "create_namespace"]

\* a give-up test that fires on the first retry
retries_exceeded_at_once(r) == r > 0

\* the test `ns_retries > ns_max_retries` that gives the retries up
retries_exceeded(r) == r > ns_max_retries

\* a 403 test that lets every token through
forbidden_never(username, token_username) == FALSE

\* the test `token_username != username` of post_new_lab
forbidden(username, token_username) == token_username # username

\* handlers/labs.py post_new_lab followed by LabManager.create_lab up to its
\* first suspension: the 403 check, the check for an existing record, the
\* insertion of the new record and the first create_namespace call
post_new_lab(t, username, token_username) ==
    /\ pc[t] = "idle"
    /\ op' = [op EXCEPT ![t] = "create"]
    /\ usr' = [usr EXCEPT ![t] = username]
    /\ token_user' = [token_user EXCEPT ![t] = token_username]
    /\ IF forbidden(username, token_username)
       THEN /\ Finish(t, "Forbidden")
            /\ UNCHANGED <<user_map, calls, ns_retries, depth>>
       ELSE IF check_for_user(token_username)
       THEN /\ Finish(t, "AlreadyExists")
            /\ UNCHANGED <<user_map, calls, ns_retries, depth>>
       ELSE /\ user_map' = MapSet(user_map, token_username,
                                  new_from_user_resources)
            /\ create_user_namespace(t, token_username)
            /\ UNCHANGED result
    /\ UNCHANGED <<objs, other_vars>>

\* create_user_lab_objects up to the await of scheduler.close(): five jobs
\* are spawned on a fresh scheduler
create_user_lab_objects(t) ==
    /\ objs' = [objs EXCEPT ![t] = [o \in LabObjects |-> "spawned"]]
    /\ pc' = [pc EXCEPT ![t] = "scheduler_close"]

\* create_user_namespace after create_namespace answered.
\*   "ok"       the namespace exists now; create_lab goes on to stage two
\*   "conflict" NSCreationError with status 409: delete the namespace
\*   "error"    any other failure: re-raised to the caller of create_lab
create_namespace_returns(t, outcome) ==
    /\ pc[t] = "create_namespace"
    /\ CASE outcome = "ok" ->
              /\ create_user_lab_objects(t)
              /\ UNCHANGED <<calls, result>>
         [] outcome = "conflict" ->
              /\ calls' = [calls EXCEPT
                             ![t] = Append(@, Call("delete_namespace",
                                           get_user_namespace(usr[t])))]
              /\ pc' = [pc EXCEPT ![t] = "retry_delete"]
              /\ UNCHANGED <<result, objs>>
         [] outcome = "error" ->
              /\ Finish(t, "NSCreationError")
              /\ UNCHANGED <<calls, objs>>
    /\ UNCHANGED <<user_map, op, usr, ns_retries, depth, token_user,
                   other_vars>>

\* create_user_namespace after the delete_namespace of the 409 branch
\* answered: count the retry, give up or call create_user_namespace again
retry_delete_returns(t, outcome) ==
    /\ pc[t] = "retry_delete"
    /\ IF outcome = "error"
       THEN /\ Finish(t, "ApiError")
            /\ UNCHANGED <<calls, ns_retries, depth>>
       ELSE IF retries_exceeded(ns_retries[t] + 1)
       THEN /\ Finish(t, "NamespaceCollision")
            /\ ns_retries' = [ns_retries EXCEPT ![t] = @ + 1]
            /\ UNCHANGED <<calls, depth>>
       ELSE /\ depth[t] < MaxDepth
            /\ create_user_namespace(t, usr[t])
            /\ UNCHANGED result
    /\ UNCHANGED <<user_map, op, usr, objs, token_user, other_vars>>

\* what can become of a job spawned on the scheduler by the time
\* scheduler.close() returns: its object was created, its cluster call
\* failed, or close() cancelled it first.  The scheduler keeps a job's
\* exception to itself, so none of the three reaches create_lab.
JobOutcomes == {"created", "failed", "cancelled"}

\* the fates of the five jobs of one create that the model draws from: all
\* objects created, or all but one
AllCreated == [o \in LabObjects |-> "created"]

JobFates ==
    {AllCreated} \cup
    {[AllCreated EXCEPT ![o] = x] :
        o \in LabObjects, x \in JobOutcomes \ {"created"}}

\* create_user_pod up to the await of create_pod
create_user_pod(t) ==
    /\ calls' = [calls EXCEPT
                   ![t] = Append(@, Call("create_pod",
                                         get_user_namespace(usr[t])))]
    /\ pc' = [pc EXCEPT ![t] = "create_pod"]

\* create_user_lab_objects after scheduler.close() returned, then
\* create_lab's third stage up to its suspension
scheduler_close_returns(t, outcomes) ==
    /\ pc[t] = "scheduler_close"
    /\ objs' = [objs EXCEPT ![t] = outcomes]
    /\ create_user_pod(t)
    /\ UNCHANGED <<user_map, op, usr, result, ns_retries, depth, token_user,
                   other_vars>>

\* create_user_pod after create_pod answered; create_lab returns or raises
create_pod_returns(t, outcome) ==
    /\ pc[t] = "create_pod"
    /\ Finish(t, IF outcome = "ok" THEN "ok" ELSE "ApiError")
    /\ UNCHANGED <<user_map, op, usr, calls, ns_retries, depth, objs,
                   token_user, other_vars>>

\* ------------------------------------------------------------------ delete

\* user_map[username].events = deque(); user_map[username].status = ...
mark_terminating(rec) == [rec EXCEPT !.events = <<>>,
                                     !.status = "terminating"]

\* user_map[username].status = "failed"
mark_failed(rec) == [rec EXCEPT !.status = "failed"]

\* handlers/labs.py delete_user_lab followed by delete_lab_environment up
\* to the await of delete_namespace; indexing user_map with a username it
\* does not hold raises KeyError
delete_user_lab(t, username) ==
    /\ pc[t] = "idle"
    /\ op' = [op EXCEPT ![t] = "delete"]
    /\ usr' = [usr EXCEPT ![t] = username]
    /\ IF username \notin DOMAIN user_map
       THEN /\ Finish(t, "KeyError")
            /\ UNCHANGED <<user_map, calls>>
       ELSE /\ user_map' = [user_map EXCEPT
                              ![username] = mark_terminating(@)]
            /\ calls' = [calls EXCEPT
                           ![t] = Append(@, Call("delete_namespace",
                                                 <<username>>))]
            /\ pc' = [pc EXCEPT ![t] = "delete_namespace"]
            /\ UNCHANGED result
    /\ UNCHANGED <<ns_retries, depth, objs, token_user, other_vars>>

\* a delete that forgets to drop the record
remove_record_forgotten(m, username) == m

\* `del user_map[username]`
remove_record(m, username) == MapDel(m, username)

\* delete_lab_environment after delete_namespace answered.  When another
\* task removed the record meanwhile, indexing user_map raises KeyError: in
\* the except block ("KeyErrorInHandler", in place of the cluster's error)
\* or at the final del ("KeyError")
delete_namespace_returns(t, outcome) ==
    /\ pc[t] = "delete_namespace"
    /\ IF outcome = "error"
       THEN IF usr[t] \in DOMAIN user_map
            THEN /\ user_map' = [user_map EXCEPT
                                   ![usr[t]] = mark_failed(@)]
                 /\ Finish(t, "ApiError")
            ELSE /\ Finish(t, "KeyErrorInHandler")
                 /\ UNCHANGED user_map
       ELSE IF usr[t] \in DOMAIN user_map
            THEN /\ user_map' = remove_record(user_map, usr[t])
                 /\ Finish(t, "ok")
            ELSE /\ Finish(t, "KeyError")
                 /\ UNCHANGED user_map
    /\ UNCHANGED <<op, usr, calls, ns_retries, depth, objs, token_user,
                   other_vars>>

\* ------------------------------------------------------------ specification

ClusterAnswers == {"ok", "error"}

NextCreate ==
    \E t \in Tasks :
       \/ \E username \in Users, token_username \in TokenUsers :
             post_new_lab(t, username, token_username)
       \/ \E outcome \in ClusterAnswers \cup {"conflict"} :
             create_namespace_returns(t, outcome)
       \/ \E outcome \in ClusterAnswers : retry_delete_returns(t, outcome)
       \/ \E outcomes \in JobFates :
             scheduler_close_returns(t, outcomes)
       \/ \E outcome \in ClusterAnswers : create_pod_returns(t, outcome)

NextDelete ==
    \E t \in Tasks :
       \/ \E username \in Users : delete_user_lab(t, username)
       \/ \E outcome \in ClusterAnswers : delete_namespace_returns(t, outcome)

Next == NextCreate \/ NextDelete

\* create and delete requests arriving in any order
Spec == Init /\ [][Next]_vars

\* create requests only
SpecCreate == Init /\ [][NextCreate]_vars

\* ------------------------------------------------------------ secret merge

\* the source secrets of the controller's namespace and the keys a secret
\* may hold
SecretNames == {"controller", "pull"}
SecretKeys == {"butler", "hub", "token"}

\* the user tokens a request may carry
UserTokens == {"token-of-rachel"}

\* a configured reference: models/v1/domain/config.py LabSecret
LabSecret == [secretRef : SecretNames, secretKey : SecretKeys]

\* the sequences of at most n elements of S
SeqUpTo(S, n) == UNION {[1..m -> S] : m \in 0..n}

\* the value of key `key` in the cluster's secret `name`, as stored (base64)
secret_value(name, key) == <<name, key>>

\* str(base64.b64encode(token.encode("utf-8"))): the text of the bytes
\* object that holds the encoding, not the encoding itself
encoded_token(tok) == <<"str(b64encode)", tok>>

\* the secret_names and secret_keys lists of merge_controller_secrets
names_of(list) == [i \in 1..Len(list) |-> list[i].secretRef]
keys_of(list) == {list[i].secretKey : i \in 1..Len(list)}

\* a duplicate test that accepts every list
duplicate_key_never(list) == FALSE

\* `if sec.secretKey in secret_keys` of the first loop: some reference
\* names a key an earlier reference named
duplicate_key(list) ==
    \E i, j \in 1..Len(list) : i < j /\ list[i].secretKey = list[j].secretKey

\* a token test that never finds the key
token_supplied_never(data) == FALSE

\* `if "token" in base64_data`
token_supplied(data) == "token" \in DOMAIN data

\* the inner loop over secret.data: every key of the secret that is one of
\* secret_keys goes into base64_data, over what was there
merge_secret(data, name, list) ==
    LET new == cluster_secrets[name] \cap keys_of(list)
    IN  [k \in DOMAIN data \cup new |->
            IF k \in new THEN secret_value(name, k) ELSE data[k]]

\* base64_data["token"] = ...
with_token(data, tok) ==
    [k \in DOMAIN data \cup {"token"} |->
        IF k = "token" THEN encoded_token(tok) ELSE data[k]]

SecretsInit ==
    /\ secret_list \in SeqUpTo(LabSecret, MaxSecrets)
    /\ cluster_secrets \in [SecretNames -> SUBSET SecretKeys]
    /\ token \in UserTokens
    /\ sec_pc = "unspawned"
    /\ secret_names = <<>>
    /\ reads = <<>>
    /\ base64_data = [k \in {} |-> <<>>]
    /\ sec_result = "none"
    /\ user_secret = <<>>
    /\ LabIdle /\ PrepullIdle /\ ImagesIdle

\* merge_controller_secrets after its last read, and create_secrets up to
\* its call of create_secret
merge_done(data) ==
    IF token_supplied(data)
    THEN /\ base64_data' = data
         /\ sec_pc' = "done"
         /\ sec_result' = "RuntimeError"
    ELSE /\ base64_data' = with_token(data, token)
         /\ sec_pc' = "create_secret"
         /\ UNCHANGED sec_result

\* the job starts: merge_controller_secrets up to its first read_secret
create_secrets ==
    /\ sec_pc = "unspawned"
    /\ IF duplicate_key(secret_list)
       THEN /\ sec_pc' = "done"
            /\ sec_result' = "RuntimeError"
            /\ UNCHANGED <<secret_names, reads, base64_data>>
       ELSE IF secret_list = <<>>
            THEN /\ merge_done(base64_data)
                 /\ UNCHANGED <<secret_names, reads>>
            ELSE /\ secret_names' = names_of(secret_list)
                 /\ reads' = <<Head(names_of(secret_list))>>
                 /\ sec_pc' = "read_secret"
                 /\ UNCHANGED <<base64_data, sec_result>>
    /\ UNCHANGED <<secret_list, cluster_secrets, token, user_secret>>
    /\ UNCHANGED <<lab_vars, prepull_vars, image_vars>>

\* read_secret answered: merge the keys, then read the next name or finish
read_secret_returns(outcome) ==
    /\ sec_pc = "read_secret"
    /\ IF outcome = "error"
       THEN /\ sec_pc' = "done"
            /\ sec_result' = "ApiError"
            /\ UNCHANGED <<secret_names, reads, base64_data>>
       ELSE LET data == merge_secret(base64_data, Head(secret_names),
                                     secret_list)
                rest == Tail(secret_names)
            IN  /\ secret_names' = rest
                /\ IF rest = <<>>
                   THEN /\ merge_done(data)
                        /\ UNCHANGED reads
                   ELSE /\ base64_data' = data
                        /\ reads' = Append(reads, Head(rest))
                        /\ UNCHANGED <<sec_pc, sec_result>>
    /\ UNCHANGED <<secret_list, cluster_secrets, token, user_secret>>
    /\ UNCHANGED <<lab_vars, prepull_vars, image_vars>>

\* create_secret answered
create_secret_returns(outcome) ==
    /\ sec_pc = "create_secret"
    /\ sec_pc' = "done"
    /\ IF outcome = "error"
       THEN /\ sec_result' = "ApiError"
            /\ UNCHANGED user_secret
       ELSE /\ sec_result' = "ok"
            /\ user_secret' = <<base64_data>>
    /\ UNCHANGED <<secret_list, cluster_secrets, token, secret_names, reads,
                   base64_data>>
    /\ UNCHANGED <<lab_vars, prepull_vars, image_vars>>

NextSecrets ==
    \/ create_secrets
    \/ \E outcome \in ClusterAnswers : read_secret_returns(outcome)
    \/ \E outcome \in ClusterAnswers : create_secret_returns(outcome)

\* one create_secrets job, for every configuration and every content of the
\* source secrets
SpecSecrets == SecretsInit /\ [][NextSecrets]_vars

\* --------------------------------------------------------- prepull executor
\* One PrepullExecutor runs its loop as one task.  run() may be called again
\* once it has returned or raised; `schedulers` is an attribute of the class
\* (prepuller.py:521), so what an earlier run left in it is still there.

Nodes == {"node1", "node2"}

\* the names (ctr.names) of the images on the nodes.  A name with a tag is
\* kept as its pieces between colons: <repository>:<tag> and
\* <host>:<port/repository>:<tag>.  _make_exttags_from_ctr skips the names
\* with a digest, so only tagged names become images.
ImageRefs ==
    { <<"lighthouse.ceres/library/sketchbook", "recommended">>,
      <<"localhost", "5000/library/sketchbook", "latest_daily">>,
      <<"registry.ceres", "5000/library/sketchbook", "recommended">> }

\* `"@sha256:" in c`: a digest name has the piece "@" where its text has
\* "@sha256:"
is_digest_ref(c) == \E i \in DOMAIN c : c[i] = "@"

\* _extract_path_from_image_ref: everything before the "@" of a digest
\* name, everything before the last colon of a tagged name
extract_path_from_image_ref(tname) ==
    IF is_digest_ref(tname)
    THEN SubSeq(tname, 1, (CHOOSE i \in DOMAIN tname :
                              tname[i] = "@"
                                 /\ \A j \in 1..(i - 1) : tname[j] # "@") - 1)
    ELSE SubSeq(tname, 1, Len(tname) - 1)

\* the images _construct_current_image_state finds: those on some node
node_images == {i \in ImageRefs : present[i] # {}}

\* _update_prepulled_images: no eligible node is without the image
prepulled(i) == eligible \ present[i] = {}

\* filter_node_images_to_desired_menu, for a configuration whose counts keep
\* every tag of ImageRefs
menu_node_images == node_images

\* get_prepulls: the menu images that are not prepulled ...
pending == {i \in menu_node_images : ~prepulled(i)}

\* ... and _nodes_missing of such an image
nodes_missing(i) == eligible \ present[i]

\* the required_pulls dict of prepull_images: path -> nodes
required_pulls ==
    [p \in {extract_path_from_image_ref(i) : i \in pending} |->
        UNION {nodes_missing(i) :
                 i \in {j \in pending : extract_path_from_image_ref(j) = p}}]

\* the orders a dict with the keys S can be walked in
Orders(S) ==
    {q \in [1..Cardinality(S) -> S] : \A x \in S : \E i \in DOMAIN q : q[i] = x}

\* a removal that leaves the entry where it is
del_scheduler_forgotten(sch, image) == sch

\* `del self.schedulers[image]`
del_scheduler(sch, image) == MapDel(sch, image)

\* a membership test that never finds the image
in_schedulers_never(image, sch) == FALSE

\* `if image in self.schedulers`
in_schedulers(image, sch) == image \in DOMAIN sch

\* create_prepuller_pod_spec and the create_pod call of prepull_images, for
\* an image whose split(":") has a second piece: name prepull-<that piece>
prepuller_pod(image, node) ==
    [name |-> <<"prepull", image[2]>>, image |-> image, node |-> node,
     fate |-> "spawned"]

PrepullInit ==
    /\ present \in [ImageRefs -> SUBSET Nodes]
    /\ eligible \in SUBSET Nodes
    /\ schedulers = [k \in {} |-> {}]
    /\ stopping = FALSE
    /\ xpc = "unstarted"
    /\ cur = <<>>
    /\ todo = <<>>
    /\ pods = {}
    /\ xresult = "none"
    /\ LabIdle /\ SecretsIdle /\ ImagesIdle

\* shutdown and aclose up to `await scheduler.close()`; res is how run()
\* stands
shutdown(res) ==
    /\ IF DOMAIN schedulers # {}
       THEN xpc' = "aclose" /\ xresult' = res
       ELSE xpc' = "returned" /\ xresult' = "ok"
    /\ cur' = <<>>
    /\ todo' = <<>>
    /\ UNCHANGED <<schedulers, pods>>

\* the test of the while loop and, when it passes, prepull_images up to the
\* get_image_data call of get_prepulls
loop_head(res) ==
    IF stopping
    THEN shutdown(res)
    ELSE /\ xpc' = "get_image_data"
         /\ xresult' = res
         /\ UNCHANGED <<schedulers, cur, todo, pods>>

\* the loop `for image in required_pulls` from the keys td on, with sch as
\* the scheduler map and pds as the pods spawned so far: up to the next
\* `await scheduler.close()`, to the IndexError of image.split(":")[1], or
\* to the end of the tick and idle()
visit_images(td, sch, pds) ==
    LET unvisited == {i \in 1..Len(td) : ~in_schedulers(td[i], sch)}
    IN  IF unvisited = {}
        THEN /\ xpc' = "idle"
             /\ schedulers' = sch
             /\ cur' = <<>>
             /\ todo' = <<>>
             /\ pods' = pds
             /\ UNCHANGED xresult
        ELSE LET i == CHOOSE j \in unvisited : \A k \in unvisited : j <= k
                 image == td[i]
             IN  /\ schedulers' = MapSet(sch, image, required_pulls[image])
                 /\ IF Len(image) < 2
                    THEN /\ xpc' = "raised"
                         /\ xresult' = "IndexError"
                         /\ cur' = <<>>
                         /\ todo' = <<>>
                         /\ pods' = pds
                    ELSE /\ xpc' = "scheduler_close"
                         /\ cur' = image
                         /\ todo' = SubSeq(td, i + 1, Len(td))
                         /\ pods' = pds \cup
                               {prepuller_pod(image, n) :
                                  n \in required_pulls[image]}
                         /\ UNCHANGED xresult

\* run() is called
run ==
    /\ xpc = "unstarted"
    /\ loop_head(xresult)
    /\ UNCHANGED <<present, eligible, stopping>>
    /\ UNCHANGED <<lab_vars, secret_vars, image_vars>>

\* run() is called again after it returned or raised
run_again ==
    /\ xpc \in {"returned", "raised"}
    /\ loop_head("none")
    /\ UNCHANGED <<present, eligible, stopping>>
    /\ UNCHANGED <<lab_vars, secret_vars, image_vars>>

\* get_image_data answered: the rest of get_prepulls, then prepull_images.
\* Only asyncio.CancelledError is caught by run(): any other error ends it,
\* shutdown() included.
get_image_data_returns(outcome) ==
    /\ xpc = "get_image_data"
    /\ IF outcome = "error"
       THEN /\ xpc' = "raised"
            /\ xresult' = "ApiError"
            /\ UNCHANGED <<schedulers, cur, todo, pods>>
       ELSE \E order \in Orders(DOMAIN required_pulls) :
               visit_images(order, schedulers, {})
    /\ UNCHANGED <<present, eligible, stopping>>
    /\ UNCHANGED <<lab_vars, secret_vars, image_vars>>

\* what becomes of a pod a campaign spawned: the scheduler keeps the errors
\* of its jobs to itself and close() cancels what is unfinished at the
\* timeout
PodFates == {"created", "failed", "timeout"}

\* scheduler.close() of a campaign returned: `del self.schedulers[image]`
\* and on to the next image
pull_close_returns(fates) ==
    /\ xpc = "scheduler_close"
    /\ LET pds == {IF p.image = cur
                   THEN [p EXCEPT !.fate = fates[p.node]]
                   ELSE p : p \in pods}
       IN  IF cur \notin DOMAIN schedulers
           THEN /\ xpc' = "raised"
                /\ xresult' = "KeyError"
                /\ pods' = pds
                /\ cur' = <<>>
                /\ todo' = <<>>
                /\ UNCHANGED schedulers
           ELSE visit_images(todo, del_scheduler(schedulers, cur), pds)
    /\ UNCHANGED <<present, eligible, stopping>>
    /\ UNCHANGED <<lab_vars, secret_vars, image_vars>>

\* idle() returned: the sleep is over
idle_returns ==
    /\ xpc = "idle"
    /\ loop_head(xresult)
    /\ UNCHANGED <<present, eligible, stopping>>
    /\ UNCHANGED <<lab_vars, secret_vars, image_vars>>

\* stop() is called
stop ==
    /\ xpc \in {"unstarted", "get_image_data", "scheduler_close", "idle"}
    /\ ~stopping
    /\ stopping' = TRUE
    /\ UNCHANGED <<present, eligible, schedulers, xpc, cur, todo, pods,
                   xresult>>
    /\ UNCHANGED <<lab_vars, secret_vars, image_vars>>

\* the task of run() is cancelled: CancelledError is raised at the await it
\* is suspended in.  Inside the try block it is caught and shutdown() runs;
\* inside shutdown() it ends run()
cancel ==
    /\ xpc \in {"get_image_data", "scheduler_close", "idle", "aclose"}
    /\ IF xpc = "aclose"
       THEN /\ xpc' = "raised"
            /\ xresult' = "CancelledError"
            /\ UNCHANGED <<schedulers, cur, todo, pods>>
       ELSE shutdown(xresult)
    /\ UNCHANGED <<present, eligible, stopping>>
    /\ UNCHANGED <<lab_vars, secret_vars, image_vars>>

\* scheduler.close() of aclose returned: every key of schedulers is deleted
aclose_returns ==
    /\ xpc = "aclose"
    /\ schedulers' = [k \in {} |-> {}]
    /\ xpc' = "returned"
    /\ xresult' = "ok"
    /\ UNCHANGED <<present, eligible, stopping, cur, todo, pods>>
    /\ UNCHANGED <<lab_vars, secret_vars, image_vars>>

\* the loop of run() alone
NextLoop ==
    \/ run
    \/ \E outcome \in ClusterAnswers : get_image_data_returns(outcome)
    \/ \E fates \in [Nodes -> PodFates] : pull_close_returns(fates)
    \/ idle_returns

NextPrepull ==
    \/ NextLoop
    \/ run_again
    \/ stop
    \/ cancel
    \/ aclose_returns

\* the executor with its callers: stop(), cancellation and further run()s
SpecPrepull == PrepullInit /\ [][NextPrepull]_vars

\* the loop left alone: nobody stops or cancels it or calls run() again
SpecPrepullLoop == PrepullInit /\ [][NextLoop]_vars

\* ... and scheduled fairly: a step of the loop that can be taken is taken
SpecPrepullFair == SpecPrepullLoop /\ WF_vars(NextLoop)

\* the loop with the callers that end it: stop() and cancellation
NextStop ==
    \/ NextLoop
    \/ stop
    \/ cancel
    \/ aclose_returns

\* ... scheduled fairly: the event loop resumes run() whenever the call it
\* waits for has answered; when stop() or a cancellation comes is up to the
\* callers
SpecPrepullStop ==
    PrepullInit /\ [][NextStop]_vars /\ WF_vars(NextLoop \/ aclose_returns)

\* --------------------------------------------------------------------- tags
\* models/v1/domain/tag.py.  A tag is a string; Spell gives its characters,
\* which is what the regular expressions and the string comparison of the
\* code work on.

TagType ==
    <<"RELEASE", "WEEKLY", "DAILY", "RELEASE_CANDIDATE", "EXPERIMENTAL",
      "ALIAS", "UNKNOWN">>

\* the tags of the images on the nodes
TagPool ==
    {"recommended", "r1_0_0", "r1_1_0", "w_1_9", "w_1_13", "w_1_13x",
     "d_1_1_1"}

Spell ==
    [t \in TagPool |->
       CASE t = "recommended" ->
               <<"r", "e", "c", "o", "m", "m", "e", "n", "d", "e", "d">>
         [] t = "r1_0_0" -> <<"r", "1", "_", "0", "_", "0">>
         [] t = "r1_1_0" -> <<"r", "1", "_", "1", "_", "0">>
         [] t = "w_1_9" -> <<"w", "_", "1", "_", "9">>
         [] t = "w_1_13" -> <<"w", "_", "1", "_", "1", "3">>
         [] t = "w_1_13x" -> <<"w", "_", "1", "_", "1", "3", "x">>
         [] t = "d_1_1_1" -> <<"d", "_", "1", "_", "1", "_", "1">>]

DigitChars == <<"0", "1", "2", "3", "4", "5", "6", "7", "8", "9">>
LetterChars ==
    <<"a", "b", "c", "d", "e", "f", "g", "h", "i", "j", "k", "l", "m", "n",
      "o", "p", "q", "r", "s", "t", "u", "v", "w", "x", "y", "z">>

IsDigit(c) == \E i \in DOMAIN DigitChars : DigitChars[i] = c

\* the place of a character in the order Python compares strings by:
\* digits, then the underscore, then the lower-case letters
Ord(c) ==
    IF IsDigit(c)
    THEN (CHOOSE i \in DOMAIN DigitChars : DigitChars[i] = c) - 1
    ELSE IF c = "_"
         THEN Len(DigitChars)
         ELSE Len(DigitChars)
                 + (CHOOSE i \in DOMAIN LetterChars : LetterChars[i] = c)

\* s < t for two strings, as Python has it
RECURSIVE str_lt(_, _)
str_lt(s, t) ==
    IF t = <<>> THEN FALSE
    ELSE IF s = <<>> THEN TRUE
    ELSE IF Head(s) = Head(t) THEN str_lt(Tail(s), Tail(t))
    ELSE Ord(Head(s)) < Ord(Head(t))

\* s.split("_")
RECURSIVE split_underscore(_)
split_underscore(s) ==
    IF \A i \in DOMAIN s : s[i] # "_"
    THEN <<s>>
    ELSE LET i == CHOOSE j \in DOMAIN s :
                      s[j] = "_" /\ \A k \in 1..(j - 1) : s[k] # "_"
         IN  <<SubSeq(s, 1, i - 1)>>
                \o split_underscore(SubSeq(s, i + 1, Len(s)))

\* the text matches \d+
IsNumber(s) == s # <<>> /\ \A i \in DOMAIN s : IsDigit(s[i])

\* int(s)
RECURSIVE maybe_int(_)
maybe_int(s) ==
    IF s = <<>> THEN 0
    ELSE 10 * maybe_int(SubSeq(s, 1, Len(s) - 1)) + Ord(s[Len(s)])

\* semantic_version and cycle when they are None
NoVersion == <<>>
NoCycle == <<>>

TagTypes == {TagType[k] : k \in DOMAIN TagType}

\* PartialTag.parse_tag with extract_metadata, for tags without release
\* candidate, cycle part or obsolete release form: the first pattern of
\* TAGTYPE_REGEXPS that matches gives the type, and release, weekly and
\* daily tags get the semantic version <<major, minor, patch>> (the build
\* part made of the rest plays no role in a comparison)
parse_tag(tag) ==
    LET f == split_underscore(Spell[tag])
        n == Len(f)
    IN  IF /\ n >= 3 /\ Len(f[1]) >= 2 /\ f[1][1] = "r"
           /\ IsNumber(Tail(f[1])) /\ IsNumber(f[2]) /\ IsNumber(f[3])
        THEN [image_type |-> "RELEASE", cycle |-> NoCycle,
              semantic_version |-> <<maybe_int(Tail(f[1])), maybe_int(f[2]),
                                     maybe_int(f[3])>>]
        ELSE IF n >= 3 /\ f[1] = <<"w">> /\ IsNumber(f[2]) /\ IsNumber(f[3])
        THEN [image_type |-> "WEEKLY", cycle |-> NoCycle,
              semantic_version |-> <<maybe_int(f[2]), maybe_int(f[3]), 0>>]
        ELSE IF /\ n >= 4 /\ f[1] = <<"d">>
                /\ IsNumber(f[2]) /\ IsNumber(f[3]) /\ IsNumber(f[4])
        THEN [image_type |-> "DAILY", cycle |-> NoCycle,
              semantic_version |-> <<maybe_int(f[2]), maybe_int(f[3]),
                                     maybe_int(f[4])>>]
        ELSE IF n >= 2 /\ f[1] = <<"e", "x", "p">>
        THEN [image_type |-> "EXPERIMENTAL", cycle |-> NoCycle,
              semantic_version |-> NoVersion]
        ELSE [image_type |-> "UNKNOWN", cycle |-> NoCycle,
              semantic_version |-> NoVersion]

\* tag.startswith("latest_") or tag == "latest"
is_latest(tag) ==
    LET s == Spell[tag]
        latest == <<"l", "a", "t", "e", "s", "t">>
    IN  \/ s = latest
        \/ Len(s) > Len(latest) /\ SubSeq(s, 1, Len(latest) + 1)
                                      = Append(latest, "_")

\* Tag.from_tag: an alias keeps the version its text parses to
from_tag(tag, alias_tags) ==
    [tag |-> tag,
     image_type |-> IF tag \in alias_tags \/ is_latest(tag)
                    THEN "ALIAS"
                    ELSE parse_tag(tag).image_type,
     semantic_version |-> parse_tag(tag).semantic_version]

\* VersionInfo.compare of semver: major, minor, patch in turn
version_compare(v, w) ==
    IF v = w THEN 0
    ELSE LET i == CHOOSE j \in 1..3 :
                      v[j] # w[j] /\ \A k \in 1..(j - 1) : v[k] = w[k]
         IN  IF v[i] < w[i] THEN -1 ELSE 1

\* `self.semantic_version is not None and other.semantic_version is not None`
both_versioned(a, b) ==
    a.semantic_version # NoVersion /\ b.semantic_version # NoVersion

\* PartialTag.compare: raised tells of IncomparableImageTypesError
compare(a, b) ==
    IF a.image_type # b.image_type
    THEN [raised |-> TRUE, value |-> 0]
    ELSE [raised |-> FALSE,
          value |-> IF both_versioned(a, b)
                    THEN version_compare(a.semantic_version,
                                         b.semantic_version)
                    ELSE IF a.tag = b.tag THEN 0
                    ELSE IF str_lt(Spell[a.tag], Spell[b.tag]) THEN -1
                    ELSE 1]

\* the lists config.aliasTags can be
AliasConfigs == SUBSET {"recommended", "w_1_9", "w_1_13", "w_1_13x"}

\* three tags are read with Tag.from_tag
CompareInit ==
    /\ config_aliases \in AliasConfigs
    /\ tagobjs \in {[k \in 1..3 |-> from_tag(t[k], config_aliases)] :
                       t \in [1..3 -> TagPool]}
    /\ compared = <<>>
    /\ all_tags = <<>>
    /\ former_tags = <<>>
    /\ sort_pc = "uncalled"
    /\ InventoryIdle /\ MenuIdle
    /\ LabIdle /\ SecretsIdle /\ PrepullIdle

\* every tag is compared with every tag
compare_all ==
    /\ tagobjs # <<>>
    /\ compared = <<>>
    /\ compared' = [i \in DOMAIN tagobjs |->
                      [j \in DOMAIN tagobjs |->
                         compare(tagobjs[i], tagobjs[j])]]
    /\ UNCHANGED <<config_aliases, tagobjs, all_tags, former_tags, sort_pc>>
    /\ UNCHANGED <<inventory_vars, menu_vars>>
    /\ UNCHANGED <<lab_vars, secret_vars, prepull_vars>>

NextCompare ==
    \/ compare_all

SpecCompare == CompareInit /\ [][NextCompare]_vars


\* ------------------------------------------------------------ image inventory
\* services/prepuller.py: get_current_image_and_node_state and what it calls.
\* A name of a container image is the sequence of its pieces between colons,
\* as ImageRefs has them; a digest name has the piece "@" where the text has
\* "@sha256:", followed by the digest.

DigestA == "sha256:1234"
DigestB == "sha256:5678"

Sketchbook == <<"lighthouse.ceres/library/sketchbook">>
LocalSketchbook == <<"localhost", "5000/library/sketchbook">>
OtherImage == <<"lighthouse.ceres/library/other">>

\* path.split("/")[-1] for the paths of the cluster
last_segment ==
    [p \in {Sketchbook, LocalSketchbook, OtherImage} |->
       IF p = OtherImage THEN "other" ELSE "sketchbook"]

\* the names lists (ContainerImage.names) the nodes report
ContainerNames ==
    { <<Sketchbook \o <<"w_1_9">>, Sketchbook \o <<"@", DigestA>>>>,
      <<Sketchbook \o <<"@", DigestA>>, LocalSketchbook \o <<"w_1_13">>,
        Sketchbook \o <<"recommended">>>>,
      <<Sketchbook \o <<"@", DigestB>>, Sketchbook \o <<"recommended">>>>,
      <<Sketchbook \o <<"@", DigestA>>, Sketchbook \o <<"@", DigestB>>,
        Sketchbook \o <<"w_1_9">>>>,
      <<OtherImage \o <<"w_1_9">>, Sketchbook \o <<"@", DigestB>>,
        Sketchbook \o <<"w_1_9">>>> }

\* config.cycle: None or a number
Cycles == {NoCycle, <<20>>}

\* _extract_image_name: the last segment of config.docker.repository
extract_image_name == "sketchbook"

\* c.split("@")[-1]
digest_of(c) == c[Len(c)]

\* c.split(":")[-1] of a tagged name
tag_of(c) == c[Len(c)]

\* _extract_path_from_v1_container
extract_path_from_v1_container(names) == extract_path_from_image_ref(names[1])

\* _filter_images_by_config on the entries of one node
filter_images_by_config(ctrs) ==
    SelectSeq(ctrs,
              LAMBDA names :
                 last_segment[extract_path_from_v1_container(names)]
                    = extract_image_name)

\* the inner loop of _make_exttags_from_ctr: an ExtTag for every tagged
\* name, with the digest found so far
tag_exttags(names, node, digest) ==
    LET tagged == SelectSeq(names, LAMBDA c : ~is_digest_ref(c))
    IN  [k \in 1..Len(tagged) |->
           [tag |-> tag_of(tagged[k]),
            image_ref |-> tagged[k],
            digest |-> digest,
            node |-> node,
            cycle |-> parse_tag(tag_of(tagged[k])).cycle]]

\* _make_exttags_from_ctr from its i-th name on; the tag loop is nested in
\* the digest loop.  raised tells that the assert failed.
RECURSIVE make_exttags_from_ctr(_, _, _, _, _)
make_exttags_from_ctr(names, node, i, digest, r) ==
    IF i > Len(names)
    THEN [raised |-> FALSE, r |-> r]
    ELSE LET c == names[i]
             found == IF is_digest_ref(c) /\ digest = ""
                      THEN digest_of(c)
                      ELSE digest
         IN  IF is_digest_ref(c) /\ found # digest_of(c)
             THEN [raised |-> TRUE, r |-> <<>>]
             ELSE make_exttags_from_ctr(
                      names, node, i + 1, found,
                      r \o tag_exttags(names, node, found))

\* _get_exttags_from_images over the entries of one node
RECURSIVE exttags_of_node(_, _)
exttags_of_node(ctrs, node) ==
    IF ctrs = <<>>
    THEN [raised |-> FALSE, r |-> <<>>]
    ELSE LET t == make_exttags_from_ctr(Head(ctrs), node, 1, "", <<>>)
             rest == exttags_of_node(Tail(ctrs), node)
         IN  IF t.raised \/ rest.raised
             THEN [raised |-> TRUE, r |-> <<>>]
             ELSE [raised |-> FALSE, r |-> t.r \o rest.r]

\* _get_exttags_from_images(_filter_images_by_config(nc))
RECURSIVE get_exttags_from_images(_)
get_exttags_from_images(nc) ==
    IF nc = <<>>
    THEN [raised |-> FALSE, r |-> <<>>]
    ELSE LET t == exttags_of_node(filter_images_by_config(Head(nc).ctrs),
                                  Head(nc).node)
             rest == get_exttags_from_images(Tail(nc))
         IN  IF t.raised \/ rest.raised
             THEN [raised |-> TRUE, r |-> <<>>]
             ELSE [raised |-> FALSE, r |-> t.r \o rest.r]

\* _filter_exttags_by_cycle
filter_exttags_by_cycle(exttags, cycle) ==
    IF cycle = NoCycle
    THEN exttags
    ELSE SelectSeq(exttags, LAMBDA t : t.cycle = cycle)

\* a path test that takes every path for the recorded one
different_path_never(p, q) == FALSE

\* `if img.path != extant_image.path`
different_path(p, q) == p # q

\* a node list that keeps its first node only
append_node_never(nodes, node) == nodes

\* `if exttag.node not in extant_image.nodes: extant_image.nodes.append(...)`
append_node(nodes, node) == nodes \cup {node}

\* the first loop of _get_images_from_exttags; dmap is the dict in the
\* order of its keys, tags the keys of the tags dict of an image
RECURSIVE merge_exttags(_, _)
merge_exttags(exttags, dmap) ==
    IF exttags = <<>>
    THEN dmap
    ELSE LET e == Head(exttags)
             path == extract_path_from_image_ref(e.image_ref)
             at == {k \in DOMAIN dmap : dmap[k].digest = e.digest}
         IN  IF e.digest = ""
             THEN merge_exttags(Tail(exttags), dmap)
             ELSE IF at = {}
             THEN merge_exttags(
                      Tail(exttags),
                      Append(dmap, [digest |-> e.digest, path |-> path,
                                    nodes |-> {e.node}, tags |-> {e.tag}]))
             ELSE LET k == CHOOSE j \in at : TRUE
                  IN  IF different_path(path, dmap[k].path)
                      THEN merge_exttags(Tail(exttags), dmap)
                      ELSE merge_exttags(
                               Tail(exttags),
                               [dmap EXCEPT
                                  ![k].tags = @ \cup {e.tag},
                                  ![k].nodes = append_node(@, e.node)])

\* config.recommendedTag and config.aliasTags
recommendedTag == "recommended"
aliasTags == {"recommended"}

\* the tag NodeTagImage.consolidate_tags prefers when the recommended tag is
\* absent: of the tags that are no alias and have a version, the one with
\* the highest version; "" when there is none
best_tag(tags) ==
    LET ranked == {t \in tags :
                     /\ from_tag(t, aliasTags).image_type # "ALIAS"
                     /\ parse_tag(t).semantic_version # NoVersion}
    IN  IF ranked = {}
        THEN ""
        ELSE CHOOSE t \in ranked :
                \A u \in ranked :
                   version_compare(parse_tag(u).semantic_version,
                                   parse_tag(t).semantic_version) <= 0

\* NodeTagImage.consolidate_tags(recommended): the primary tag of the image
\* and the type that tag gives it
consolidate_tags(img, recommended) ==
    LET primary == IF recommended \in img.tags
                   THEN recommended
                   ELSE best_tag(img.tags)
    IN  [digest |-> img.digest, path |-> img.path, nodes |-> img.nodes,
         tags |-> img.tags, tag |-> primary,
         image_type |-> IF primary = ""
                        THEN "UNKNOWN"
                        ELSE from_tag(primary, aliasTags).image_type,
         prepulled |-> FALSE]

\* _get_images_from_exttags
get_images_from_exttags(exttags) ==
    LET dmap == merge_exttags(exttags, <<>>)
    IN  [k \in DOMAIN dmap |-> consolidate_tags(dmap[k], recommendedTag)]

\* a choice of nodes that takes every node for eligible
eligible_names_all(names, enabled) == names

\* `[x.name for x in nodes if x.eligible]`
eligible_names(names, enabled) == names \cap enabled

\* _update_prepulled_images
update_prepulled_images(names, enabled, list) ==
    [k \in DOMAIN list |->
       [list[k] EXCEPT
          !.prepulled = (eligible_names(names, enabled) \ list[k].nodes = {})]]

\* _filter_images_to_enabled_nodes
filter_images_to_enabled_nodes(names, enabled, images) ==
    [k \in DOMAIN images |->
       [images[k] EXCEPT !.nodes = @ \cap eligible_names(names, enabled)]]

\* the node names of the reply of get_image_data (imgdata.keys())
node_names(nc) == {nc[k].node : k \in DOMAIN nc}

\* the replies get_image_data can give with at most n entries: the entries
\* of every node, the nodes in any order
NodeContainers(n) ==
    UNION {{[k \in DOMAIN o |-> [node |-> o[k], ctrs |-> c[k]]] :
               o \in Orders(Nodes),
               c \in {d \in [1..Cardinality(Nodes)
                               -> SeqUpTo(ContainerNames, m)] :
                        Len(d[1]) + Len(d[2]) = m}} :
           m \in 0..n}

\* get_image_data has answered and Node.eligible is set for each node
InventoryInit ==
    /\ all_images_by_node \in NodeContainers(MaxEntries)
    /\ enabled_nodes \in SUBSET Nodes
    /\ config_cycle \in Cycles
    /\ inv_pc = "get_image_data"
    /\ image_list = <<>>
    /\ enabled_prepulled_images = <<>>
    /\ node_cache = <<>>
    /\ MenuIdle /\ CompareIdle
    /\ LabIdle /\ SecretsIdle /\ PrepullIdle

\* NodeTagImage.to_image: the image without what the nodes add to it
to_image(img) ==
    [path |-> img.path, digest |-> img.digest, tags |-> img.tags,
     prepulled |-> img.prepulled]

\* `if img.digest not in dmap` as a test that holds for the first image only
needs_entry_first_only(dmap, digest) == dmap = <<>>

\* `if img.digest not in dmap` of _update_node_cache
needs_entry(dmap, digest) == \A k \in DOMAIN dmap : dmap[k].digest # digest

\* the first loop of _update_node_cache: dmap[digest] gets the image and its
\* nodes; an assignment to dmap[digest]["img"] raises KeyError when dmap has
\* no entry for the digest
RECURSIVE cache_dmap(_, _)
cache_dmap(list, dmap) ==
    IF list = <<>>
    THEN [raised |-> FALSE, r |-> dmap]
    ELSE LET i == Head(list)
             d1 == IF needs_entry(dmap, i.digest)
                   THEN Append(dmap, [digest |-> i.digest,
                                      img |-> to_image(i), nodes |-> {}])
                   ELSE dmap
             at == {k \in DOMAIN d1 : d1[k].digest = i.digest}
         IN  IF at = {}
             THEN [raised |-> TRUE, r |-> dmap]
             ELSE LET k == CHOOSE j \in at : TRUE
                  IN  cache_dmap(Tail(list),
                                 [d1 EXCEPT ![k].img = to_image(i),
                                            ![k].nodes = i.nodes])

\* the inner loop of _update_node_cache for the node `name`: the images of
\* the list whose dmap entry names the node, in the order of the list
RECURSIVE cached_images(_, _, _)
cached_images(name, list, dmap) ==
    IF list = <<>>
    THEN <<>>
    ELSE LET e == dmap[CHOOSE k \in DOMAIN dmap :
                          dmap[k].digest = Head(list).digest]
         IN  (IF name \in e.nodes THEN <<e.img>> ELSE <<>>)
                \o cached_images(name, Tail(list), dmap)

\* _make_nodes_from_image_data: a Node for each key of the reply, in the
\* order of the keys
make_nodes_from_image_data(nc, enabled) ==
    [k \in DOMAIN nc |->
       [name |-> nc[k].node, eligible |-> nc[k].node \in enabled,
        cached |-> <<>>]]

\* _update_node_cache
update_node_cache(initial_nodes, list) ==
    LET d == cache_dmap(list, <<>>)
    IN  IF d.raised
        THEN [raised |-> TRUE, r |-> <<>>]
        ELSE [raised |-> FALSE,
              r |-> [k \in DOMAIN initial_nodes |->
                       [initial_nodes[k] EXCEPT
                          !.cached = @ \o cached_images(
                                             initial_nodes[k].name,
                                             list, d.r)]]]

\* get_current_image_and_node_state from the reply of get_image_data on.
\* An AssertionError of _make_exttags_from_ctr goes through every caller.
get_current_image_and_node_state ==
    /\ inv_pc = "get_image_data"
    /\ LET exttags == get_exttags_from_images(all_images_by_node)
           names == node_names(all_images_by_node)
           list == get_images_from_exttags(
                       filter_exttags_by_cycle(exttags.r, config_cycle))
           prepulled_images ==
               update_prepulled_images(names, enabled_nodes, list)
           nodes == update_node_cache(
                        make_nodes_from_image_data(all_images_by_node,
                                                   enabled_nodes),
                        prepulled_images)
       IN  IF exttags.raised
           THEN /\ inv_pc' = "AssertionError"
                /\ UNCHANGED <<image_list, enabled_prepulled_images,
                               node_cache>>
           ELSE IF nodes.raised
           THEN /\ inv_pc' = "KeyError"
                /\ UNCHANGED <<image_list, enabled_prepulled_images,
                               node_cache>>
           ELSE /\ inv_pc' = "returned"
                /\ image_list' = list
                /\ node_cache' = nodes.r
                /\ enabled_prepulled_images' =
                       filter_images_to_enabled_nodes(
                           names, enabled_nodes, prepulled_images)
    /\ UNCHANGED <<all_images_by_node, enabled_nodes, config_cycle>>
    /\ UNCHANGED <<menu_vars, compare_vars>>
    /\ UNCHANGED <<lab_vars, secret_vars, prepull_vars>>

NextInventory ==
    \/ get_current_image_and_node_state

SpecInventory == InventoryInit /\ [][NextInventory]_vars

\* ------------------------------------------------------------------ the menu
\* services/prepuller.py: get_menu_images and what it calls.  A dict is the
\* sequence of its items in the order of their keys.

EmptyDict == <<>>

\* `key in d`
has_key(d, key) == \E k \in DOMAIN d : d[k].key = key

\* d[key]
item(d, key) == d[CHOOSE k \in DOMAIN d : d[k].key = key].value

\* d[key] = value: a new key goes to the end, a known key keeps its place
set_item(d, key, value) ==
    IF has_key(d, key)
    THEN [k \in DOMAIN d |->
            IF d[k].key = key THEN [key |-> key, value |-> value] ELSE d[k]]
    ELSE Append(d, [key |-> key, value |-> value])

\* the tag sets of the images of an inventory
ImageTags ==
    { {"recommended", "w_1_9"}, {"recommended", "w_1_13"}, {"w_1_9"},
      {"w_1_13"}, {"d_1_1_1"}, {"w_1_13x"} }

\* the digests the images of an inventory have, one for each place
Digests == <<DigestA, DigestB, "sha256:9abc", "sha256:def0">>

\* the lists of at most n images get_current_image_and_node_state can
\* return: images of different digests, on the eligible nodes or on some of
\* them
Inventories(n) ==
    UNION {{[k \in DOMAIN tags |->
               [consolidate_tags([digest |-> Digests[k], path |-> Sketchbook,
                                  nodes |-> {}, tags |-> tags[k]],
                                 recommendedTag)
                  EXCEPT !.prepulled = pre[k]]] :
               pre \in [DOMAIN tags -> BOOLEAN]} :
           tags \in SeqUpTo(ImageTags, n)}

\* config.numReleases, numWeeklies, numDailies
TagCounts ==
    { [RELEASE |-> 1, WEEKLY |-> 2, DAILY |-> 1],
      [RELEASE |-> 0, WEEKLY |-> 1, DAILY |-> 0],
      [RELEASE |-> 0, WEEKLY |-> 0, DAILY |-> 1] }

\* tag_count after the loop over TagType: 0 for the types config has no
\* number for
tag_count(counts, tag_type) ==
    IF tag_type \in DOMAIN counts THEN counts[tag_type] ELSE 0

\* a first pass that finds no recommended image
first_pass_never(all_images, menu) == menu

\* the first pass of filter_node_images_to_desired_menu
RECURSIVE first_pass(_, _)
first_pass(all_images, menu) ==
    IF all_images = <<>>
    THEN menu
    ELSE LET img == Head(all_images)
         IN  first_pass(Tail(all_images),
                        IF img.tag # "" /\ img.tag = recommendedTag
                        THEN set_item(menu, img.tag, img)
                        ELSE menu)

\* a cap no count exceeds
over_cap_never(running, cap) == FALSE

\* `if running_count[tag_type] > tag_count[tag_type]`
over_cap(running, cap) == running > cap

\* the second pass
RECURSIVE second_pass(_, _, _, _)
second_pass(all_images, counts, running_count, menu) ==
    IF all_images = <<>>
    THEN menu
    ELSE LET img == Head(all_images)
             tag_type == img.image_type
             running == [running_count EXCEPT ![tag_type] = @ + 1]
         IN  second_pass(
                 Tail(all_images), counts, running,
                 IF over_cap(running[tag_type], tag_count(counts, tag_type))
                 THEN menu
                 ELSE IF img.tag # ""
                 THEN set_item(menu, img.tag, img)
                 ELSE menu)

\* filter_node_images_to_desired_menu
filter_node_images_to_desired_menu(all_images, counts) ==
    second_pass(all_images, counts,
                [t \in TagTypes |-> 0],
                first_pass(all_images, EmptyDict))

\* _filter_node_images_by_availability
RECURSIVE filter_node_images_by_availability(_)
filter_node_images_by_availability(menu) ==
    IF menu = <<>>
    THEN EmptyDict
    ELSE LET rest == filter_node_images_by_availability(Tail(menu))
         IN  IF Head(menu).value.prepulled
             THEN <<Head(menu)>> \o rest
             ELSE rest

\* the loop that fills all_menu
RECURSIVE all_menu_of(_, _)
all_menu_of(images, all_menu) ==
    IF images = <<>>
    THEN all_menu
    ELSE all_menu_of(Tail(images),
                     set_item(all_menu, Head(images).tag,
                              to_image(Head(images))))

\* get_menu_images is called and get_current_image_and_node_state has
\* returned its list
MenuInit ==
    /\ all_images_by_node = <<>>
    /\ enabled_nodes = {}
    /\ config_cycle = NoCycle
    /\ inv_pc = "returned"
    /\ image_list = <<>>
    /\ enabled_prepulled_images \in Inventories(MaxImages)
    /\ node_cache = <<>>
    /\ tag_counts \in TagCounts
    /\ menu_pc = "get_current_image_and_node_state"
    /\ desired_menu = EmptyDict
    /\ menu_images = EmptyDict
    /\ prepulls = <<>>
    /\ CompareIdle
    /\ LabIdle /\ SecretsIdle /\ PrepullIdle

\* get_menu_images after get_current_image_and_node_state
get_menu_images ==
    /\ menu_pc = "get_current_image_and_node_state"
    /\ inv_pc = "returned"
    /\ LET images == enabled_prepulled_images
           desired == filter_node_images_to_desired_menu(images, tag_counts)
           available == filter_node_images_by_availability(desired)
           shown == [k \in DOMAIN available |->
                       [key |-> available[k].key,
                        value |-> to_image(available[k].value)]]
       IN  /\ desired_menu' = desired
           /\ menu_images' =
                  set_item(shown, "all", all_menu_of(images, EmptyDict))
    /\ menu_pc' = "returned"
    /\ UNCHANGED <<tag_counts, prepulls>>
    /\ UNCHANGED <<inventory_vars, compare_vars>>
    /\ UNCHANGED <<lab_vars, secret_vars, prepull_vars>>

NextMenu ==
    \/ get_menu_images

SpecMenu == MenuInit /\ [][NextMenu]_vars

\* ------------------------------------------------------------------ helpers

\* the positions of the calls to `api` in the calls of task t
CallsTo(t, api) == {i \in 1..Len(calls[t]) : calls[t][i][1] = api}

\* t is a create that went past the check: it inserted a record and issued
\* cluster calls
Inserted(t) == op[t] = "create" /\ calls[t] # <<>>

\* t is a create that is still running
CreateInProgress(t) ==
    op[t] = "create" /\
    pc[t] \in {"create_namespace", "retry_delete", "scheduler_close",
               "create_pod"}

\* t is a create that ended with one of its stages raising
CreateFailed(t) ==
    op[t] = "create" /\ pc[t] = "done" /\
    result[t] \in {"NSCreationError", "ApiError", "NamespaceCollision"}

\* the calls of the namespace stage of a create
NsCalls(t) == SelectSeq(calls[t], LAMBDA c : c[1] # "create_pod")

\* ------------------------------------------------------------------- claims

C3_CreateEndsRunning ==
    \A t \in Tasks :
       /\ (Inserted(t) /\ pc[t] = "create_namespace" /\ Len(calls[t]) = 1)
          => (user_map[usr[t]].status = "starting"
              /\ user_map[usr[t]].pod = "missing")
       /\ (op[t] = "create" /\ pc[t] = "done" /\ result[t] = "ok"
             /\ objs[t] = AllCreated)
          => (usr[t] \in DOMAIN user_map
              /\ user_map[usr[t]].status = "running")

\* C4: when a stage of create fails, the record is still in the user map
\* when create ends and its status is failed.
C4_FailedCreateMarksFailed ==
    \A t \in Tasks :
       CreateFailed(t)
       => (usr[t] \in DOMAIN user_map
           /\ user_map[usr[t]].status = "failed")

\* C5: create_user_namespace gives up after ns_max_retries retries: with
\* the first attempt that makes at most ns_max_retries + 1 calls to
\* create_namespace.
C5_RetriesBounded ==
    \A t \in Tasks :
       Cardinality(CallsTo(t, "create_namespace")) <= ns_max_retries + 1

\* C6: after k < 5 conflicts followed by a success the task has made k
\* deletions and k + 1 creation attempts of its namespace, a deletion
\* between any two attempts, and it went on to the next stage: fewer than
\* 5 conflicts never end in NamespaceCollision.
C6_ConflictsThenSuccess ==
    \A t \in Tasks :
       (op[t] = "create" /\ Cardinality(CallsTo(t, "delete_namespace")) < 5)
       => /\ result[t] # "NamespaceCollision"
          /\ \A i \in 1..Len(NsCalls(t)) :
                NsCalls(t)[i] =
                   Call(IF i % 2 = 1 THEN "create_namespace"
                                     ELSE "delete_namespace",
                        get_user_namespace(usr[t]))
          /\ (pc[t] \in {"scheduler_close", "create_pod"})
             => (Cardinality(CallsTo(t, "create_namespace")) =
                 Cardinality(CallsTo(t, "delete_namespace")) + 1)

\* C6 witness: three conflicts, then the namespace was created and the
\* supporting objects are being made
C6_Witness ==
    \E t \in Tasks :
       /\ pc[t] = "scheduler_close"
       /\ Cardinality(CallsTo(t, "delete_namespace")) = 3
       /\ Cardinality(CallsTo(t, "create_namespace")) = 4

\* C7: no delete for a user is at work while a create for the same user is
\* at work.
C7_CreateDeleteExclusive ==
    \A t1, t2 \in Tasks :
       ~(/\ CreateInProgress(t1)
         /\ op[t2] = "delete" /\ pc[t2] = "delete_namespace"
         /\ usr[t1] = usr[t2])

\* C8: the pod is submitted only after the namespace and all five
\* supporting objects were created.
C8_PodAfterObjects ==
    \A t \in Tasks :
       CallsTo(t, "create_pod") # {}
       => (/\ CallsTo(t, "create_namespace") # {}
           /\ \A o \in LabObjects : objs[t][o] = "created")

\* C9: when a supporting object fails to be created, create submits no pod
\* and ends in failure.
C9_ObjectFailureAborts ==
    \A t \in Tasks :
       (\E o \in LabObjects : objs[t][o] = "failed")
       => (/\ CallsTo(t, "create_pod") = {}
           /\ pc[t] = "done" => result[t] # "ok")

\* C10: when a delete completes successfully it has issued the namespace
\* deletion and the user map holds no record for the user; a create that
\* finds no record is accepted.
C10_DeleteRemovesRecord ==
    [][\A t \in Tasks :
          /\ (op[t] = "delete" /\ pc[t] # "done" /\ pc'[t] = "done"
                /\ result'[t] = "ok")
             => (/\ CallsTo(t, "delete_namespace") # {}
                 /\ usr[t] \notin DOMAIN user_map')
          /\ (pc[t] = "idle" /\ op'[t] = "create"
                /\ result'[t] # "Forbidden"
                /\ usr'[t] \notin DOMAIN user_map)
             => (/\ pc'[t] # "done"
                 /\ usr'[t] \in DOMAIN user_map'
                 /\ user_map'[usr'[t]] = new_from_user_resources)]_vars

\* C10 witness: a delete completed, and the record now in the map is the
\* one a later create put there
C10_Witness ==
    \E t1, t2 \in Tasks :
       /\ op[t1] = "delete" /\ pc[t1] = "done" /\ result[t1] = "ok"
       /\ Inserted(t2) /\ usr[t2] = usr[t1]
       /\ usr[t2] \in DOMAIN user_map
       /\ user_map[usr[t2]].status = "starting"

\* C11: when the namespace deletion of a delete fails, the delete ends with
\* the cluster's error and the user's record is in the user map with status
\* failed.
C11_FailedDeleteMarksFailed ==
    [][\A t \in Tasks :
          (/\ op[t] = "delete" /\ pc[t] = "delete_namespace"
           /\ pc'[t] = "done"
           /\ result'[t] \in {"ApiError", "KeyErrorInHandler"})
          => (/\ result'[t] = "ApiError"
              /\ usr[t] \in DOMAIN user_map'
              /\ user_map'[usr[t]].status = "failed")]_vars

\* C12: a delete for a username without a record ends with NotFound, issues
\* no cluster call and leaves the user map as it was.
C12_DeleteAbsentNotFound ==
    [][\A t \in Tasks :
          (/\ pc[t] = "idle" /\ op'[t] = "delete"
           /\ usr'[t] \notin DOMAIN user_map)
          => (/\ pc'[t] = "done"
              /\ result'[t] = "NotFound"
              /\ calls'[t] = <<>>
              /\ user_map' = user_map)]_vars

\* C13: a create whose username is not the username of the token ends with
\* Forbidden at once: no record is inserted and no cluster call is issued.
C13_ForeignTokenForbidden ==
    [][\A t \in Tasks :
          (/\ pc[t] = "idle" /\ op'[t] = "create"
           /\ token_user'[t] # usr'[t])
          => (/\ pc'[t] = "done"
              /\ result'[t] = "Forbidden"
              /\ calls'[t] = <<>>
              /\ user_map' = user_map)]_vars

\* C13 witness: a create for rachel with the token of wrench was rejected
C13_Witness ==
    \E t \in Tasks :
       /\ op[t] = "create" /\ pc[t] = "done"
       /\ usr[t] = "rachel" /\ token_user[t] = "wrench"
       /\ result[t] = "Forbidden"

\* the sources that are read hold the key `token` and a reference asks for it
SourcesSupplyToken ==
    /\ \E i \in 1..Len(secret_list) : secret_list[i].secretKey = "token"
    /\ \E i \in 1..Len(secret_list) :
          "token" \in cluster_secrets[secret_list[i].secretRef]

\* C14: when two configured references name the same key, the merge ends
\* with a configuration error, no source secret is read and no user secret
\* is created.
C14_DuplicateKeyFailsFirst ==
    Cardinality({secret_list[i].secretKey : i \in 1..Len(secret_list)})
       < Len(secret_list)
    => (/\ reads = <<>>
        /\ user_secret = <<>>
        /\ sec_pc \in {"unspawned", "done"}
        /\ sec_pc = "done" => sec_result = "RuntimeError")

\* C14 witness: a configuration with a duplicate key was rejected
C14_Witness ==
    /\ Len(secret_list) = 2
    /\ secret_list[1].secretKey = secret_list[2].secretKey
    /\ secret_list[1].secretRef # secret_list[2].secretRef
    /\ sec_pc = "done" /\ sec_result = "RuntimeError"

\* C15: the data of a created user secret holds `token` with the encoding of
\* the caller's token and otherwise only configured keys; when the sources
\* supply `token`, the job fails and no user secret is created.
C15_TokenFromUserOnly ==
    /\ user_secret # <<>>
       => (/\ "token" \in DOMAIN user_secret[1]
           /\ user_secret[1]["token"] = encoded_token(token)
           /\ DOMAIN user_secret[1] \ {"token"}
                 \subseteq {secret_list[i].secretKey :
                              i \in 1..Len(secret_list)})
    /\ SourcesSupplyToken
       => (/\ user_secret = <<>>
           /\ sec_pc # "create_secret"
           /\ sec_pc = "done" => sec_result \in {"RuntimeError", "ApiError"})

\* C15 witness: a user secret with a configured key next to `token` was
\* created although a source secret holds a key `token` nobody asked for
C15_Witness ==
    /\ user_secret # <<>>
    /\ DOMAIN user_secret[1] = {"butler", "token"}
    /\ \E n \in SecretNames : "token" \in cluster_secrets[n]

\* the paths of the images
Paths == {extract_path_from_image_ref(i) : i \in ImageRefs}

\* C16: a tick comes to its end, and the pull pods it created are exactly
\* one per menu image that is not prepulled and eligible node without the
\* image, pinned to that node and using that image.
C16_TickCreatesRequiredPods ==
    /\ xresult # "IndexError"
    /\ xpc = "idle"
       => {<<p.image, p.node>> : p \in pods}
             = UNION {{<<i, n>> : n \in nodes_missing(i)} : i \in pending}

\* a step of a tick that walks required_pulls
TickStep ==
    /\ xpc \in {"get_image_data", "scheduler_close"}
    /\ xpc' \in {"scheduler_close", "idle", "raised"}

\* C17: a tick that comes to an image with an entry in schedulers leaves
\* the entry as it is and starts no campaign and no pod for the image; the
\* image a campaign is running for has its entry, so that no second
\* campaign for it starts.
C17_ExistingSchedulerSkipped ==
    [][/\ \A k \in DOMAIN schedulers :
             (TickStep /\ k # cur)
             => (/\ k \in DOMAIN schedulers'
                 /\ schedulers'[k] = schedulers[k]
                 /\ cur' # k
                 /\ \A p \in pods' \ pods : p.image # k)
       /\ xpc' = "scheduler_close" => cur' \in DOMAIN schedulers']_vars

\* C17 witness: a tick ended that needed pulls of an image, found an entry
\* for it and created no pod for it
C17_Witness ==
    /\ xpc = "idle"
    /\ \E k \in DOMAIN schedulers \cap DOMAIN required_pulls :
          \A p \in pods : p.image # k

\* C18: schedulers holds an entry only while the campaign that added it is
\* running.
C18_NoStaleEntry ==
    \A k \in DOMAIN schedulers : xpc = "scheduler_close" /\ cur = k

\* C19: once a tick has ended with a failed pull pod for an image on a node
\* on which the image is still required, a later tick spawns a pull pod for
\* that image on that node.
C19_FailedPullRetried ==
    \A k \in Paths, n \in Nodes :
       (/\ xpc = "idle"
        /\ k \in DOMAIN required_pulls /\ n \in required_pulls[k]
        /\ \E p \in pods : p.image = k /\ p.node = n /\ p.fate = "failed")
       ~> (\E p \in pods : p.image = k /\ p.node = n /\ p.fate = "spawned")

\* C20: run() never ends with the error of a cluster call.
C20_ClusterFailureSwallowed ==
    ~(xpc = "raised" /\ xresult = "ApiError")

\* C21: once the executor is told to stop, shutdown comes to its end with
\* an empty scheduler map (unless a cancellation interrupts shutdown
\* itself).
C21_StopLeadsToShutdown ==
    stopping
    ~> (\/ xpc = "returned" /\ DOMAIN schedulers = {}
        \/ xresult = "CancelledError")

\* ------------------------------------------------- claims on the inventory

\* the digest names of an entry
DigestNames(names) == {i \in DOMAIN names : is_digest_ref(names[i])}

\* what the nodes show of the images: a tagged name of an entry that passes
\* the filters, with the node of the entry and the digest the entry names
Sightings ==
    UNION {
      UNION {
        {[node |-> all_images_by_node[k].node,
          digest |-> digest_of(all_images_by_node[k].ctrs[j]
                                 [CHOOSE d \in DigestNames(
                                      all_images_by_node[k].ctrs[j]) : TRUE]),
          path |-> extract_path_from_image_ref(
                       all_images_by_node[k].ctrs[j][i]),
          tag |-> tag_of(all_images_by_node[k].ctrs[j][i])] :
           i \in {n \in DOMAIN all_images_by_node[k].ctrs[j] :
                    /\ ~is_digest_ref(all_images_by_node[k].ctrs[j][n])
                    /\ config_cycle = NoCycle}} :
        j \in {e \in DOMAIN all_images_by_node[k].ctrs :
                 /\ DigestNames(all_images_by_node[k].ctrs[e]) # {}
                 /\ last_segment[extract_path_from_v1_container(
                                     all_images_by_node[k].ctrs[e])]
                       = extract_image_name}} :
      k \in DOMAIN all_images_by_node}

\* the sightings of a digest under a path
SightingsOf(digest, path) ==
    {s \in Sightings : s.digest = digest /\ s.path = path}

\* C22: a snapshot has at most one image for a digest, and a tag or a node
\* of an image comes from a sighting of its digest under the path of the
\* image: a sighting under another path gives it nothing.
C22_OneImageOnePath ==
    inv_pc = "returned" =>
       /\ \A i, j \in DOMAIN enabled_prepulled_images :
              enabled_prepulled_images[i].digest
                 = enabled_prepulled_images[j].digest => i = j
       /\ \A i \in DOMAIN image_list :
              LET img == image_list[i]
              IN  /\ \A t \in img.tags :
                        \E s \in SightingsOf(img.digest, img.path) :
                           s.tag = t
                  /\ \A n \in img.nodes :
                        \E s \in SightingsOf(img.digest, img.path) :
                           s.node = n

\* a snapshot whose image was also sighted under another path, with a tag
\* and on a node the image does not have
C22_Witness ==
    /\ inv_pc = "returned"
    /\ \E i \in DOMAIN image_list :
          \E s \in Sightings :
             /\ s.digest = image_list[i].digest
             /\ s.path # image_list[i].path
             /\ s.tag \notin image_list[i].tags
             /\ s.node \notin image_list[i].nodes

C24_PrepulledIffOnEligible ==
    inv_pc = "returned" =>
       \A i \in DOMAIN enabled_prepulled_images :
          enabled_prepulled_images[i].prepulled
             <=> \A n \in enabled_nodes :
                    \E s \in SightingsOf(image_list[i].digest,
                                          image_list[i].path) : s.node = n

\* a prepulled image that a node which is not eligible lacks, next to an
\* image that is not prepulled
C24_Witness ==
    /\ inv_pc = "returned"
    /\ \E i, j \in DOMAIN enabled_prepulled_images :
          /\ enabled_prepulled_images[i].prepulled
          /\ \E n \in Nodes \ enabled_nodes : n \notin image_list[i].nodes
          /\ enabled_nodes # {}
          /\ ~enabled_prepulled_images[j].prepulled

\* C25: an entry whose digest names disagree is dropped and the snapshot
\* is returned all the same.
C25_ConflictingDigestsDropped ==
    inv_pc # "get_image_data" => inv_pc = "returned"

\* ------------------------------------------------------ claims on the menu

CappedTypes == {"RELEASE", "WEEKLY", "DAILY"}

\* the places of the images of a type in the inventory and in the menu
InventoryOfType(tag_type) ==
    {i \in DOMAIN enabled_prepulled_images :
        enabled_prepulled_images[i].image_type = tag_type}
MenuOfType(tag_type) ==
    {k \in DOMAIN desired_menu :
        desired_menu[k].value.image_type = tag_type}

\* the digests of the images of the menu
MenuDigests == {desired_menu[k].value.digest : k \in DOMAIN desired_menu}

\* a <= b in the order of the tags of one type
tag_le(a, b) ==
    compare(from_tag(a, aliasTags), from_tag(b, aliasTags)).value <= 0

\* C26: an image of the menu has the recommended tag, or it is a release,
\* weekly or daily with fewer images of its type before it in the menu than
\* the cap of the type.
C26_MenuWithinCaps ==
    menu_pc = "returned" =>
       \A k \in DOMAIN desired_menu :
          LET img == desired_menu[k].value
          IN  \/ img.tag = recommendedTag
              \/ /\ img.image_type \in CappedTypes
                 /\ Cardinality({j \in MenuOfType(img.image_type) : j < k})
                       < tag_counts[img.image_type]

\* a menu that holds a weekly up to its cap and leaves one out
C26_Witness ==
    /\ menu_pc = "returned"
    /\ tag_counts["WEEKLY"] = 1
    /\ Cardinality(MenuOfType("WEEKLY")) = 1
    /\ \E i \in InventoryOfType("WEEKLY") :
          enabled_prepulled_images[i].digest \notin MenuDigests

\* C27: the images of a capped type in the menu are in descending order
\* and no image of the type that the menu leaves out is greater than one
\* the menu holds.
C27_MenuHoldsGreatest ==
    menu_pc = "returned" =>
       \A t \in CappedTypes :
          /\ \A j, k \in MenuOfType(t) :
                j < k => tag_le(desired_menu[k].value.tag,
                                desired_menu[j].value.tag)
          /\ \A k \in MenuOfType(t) :
                \A i \in InventoryOfType(t) :
                   enabled_prepulled_images[i].digest \notin MenuDigests
                      => tag_le(enabled_prepulled_images[i].tag,
                                desired_menu[k].value.tag)

\* the images of the inventory that carry the recommended tag
Recommended ==
    {i \in DOMAIN enabled_prepulled_images :
        recommendedTag \in enabled_prepulled_images[i].tags}

\* C28 as stated: every image with the recommended tag is the first entry
\* of the menu.
C28_EveryRecommendedFirst ==
    menu_pc = "returned" =>
       \A i \in Recommended :
          /\ desired_menu # <<>>
          /\ desired_menu[1].value.digest
                = enabled_prepulled_images[i].digest

\* C28 amended: when images carry the recommended tag, the first entry of
\* the menu has the recommended tag as its key and holds the last of them
\* in the inventory.
C28_LastRecommendedFirst ==
    menu_pc = "returned" /\ Recommended # {} =>
       /\ desired_menu # <<>>
       /\ desired_menu[1].key = recommendedTag
       /\ \E i \in Recommended :
             /\ \A j \in Recommended : j <= i
             /\ desired_menu[1].value.digest
                   = enabled_prepulled_images[i].digest

\* a menu of several images for an inventory whose recommended image
\* comes last
C28_Witness ==
    /\ menu_pc = "returned"
    /\ Recommended = {Len(enabled_prepulled_images)}
    /\ Len(desired_menu) = 3

\* the menu shown and the map under "all" of the answer of get_menu_images
Shown == SelectSeq(menu_images, LAMBDA e : e.key # "all")
AllMenu == item(menu_images, "all")

\* C29: the images shown are prepulled images of the menu, and the map
\* under "all" has every image of the inventory.
C29_ShownPrepulledAllComplete ==
    menu_pc = "returned" =>
       /\ \A k \in DOMAIN Shown :
              /\ Shown[k].value.prepulled
              /\ Shown[k].value.digest \in MenuDigests
       /\ \A i \in DOMAIN enabled_prepulled_images :
              \E k \in DOMAIN AllMenu :
                 AllMenu[k].value.digest = enabled_prepulled_images[i].digest

\* ------------------------------------------------------- claims on the tags

\* C30: on tags of one type compare is a total order: any two tags are
\* comparable, and the comparison is antisymmetric and transitive.
C30_CompareIsTotalOrder ==
    /\ compared # <<>>
    /\ \A i, j \in DOMAIN tagobjs :
          tagobjs[i].image_type = tagobjs[j].image_type
    => /\ \A i, j \in DOMAIN tagobjs : ~compared[i][j].raised
       /\ \A i, j \in DOMAIN tagobjs :
             /\ compared[i][j].value = 0 - compared[j][i].value
             /\ compared[i][j].value = 0
                   => tagobjs[i].tag = tagobjs[j].tag
       /\ \A i, j, k \in DOMAIN tagobjs :
             compared[i][j].value <= 0 /\ compared[j][k].value <= 0
                => compared[i][k].value <= 0

\* ------------------------------------------------------- the event queues

\* number of events the model lets a queue hold
MaxEvents == 2

\* models/v1/event.py EventTypes: the types the model appends
EventTypes == {"progress", "complete"}

\* the broker's append(username, event): the event goes to the end of the
\* queue of the user's record
append(username, event) ==
    /\ username \in DOMAIN user_map
    /\ Len(user_map[username].events) < MaxEvents
    /\ user_map' = [user_map EXCEPT ![username].events = Append(@, event)]
    /\ UNCHANGED <<pc, op, usr, result, calls, ns_retries, depth, objs,
                   token_user, other_vars>>

NextEvents ==
    \/ Next
    \/ \E username \in Users, event \in EventTypes : append(username, event)

\* create and delete requests, and events appended to the queues
SpecEvents == Init /\ [][NextEvents]_vars

\* q is an initial part of r
IsPrefix(q, r) == Len(q) <= Len(r) /\ SubSeq(r, 1, Len(q)) = q

\* ------------------------------------------- claims on records and events

\* C31: as long as a user's record stays in the user map, every step leaves
\* the events of its queue where they are: the queue before the step is an
\* initial part of the queue after it.
C31_QueueAppendOnly ==
    [][\A u \in DOMAIN user_map \cap DOMAIN user_map' :
          IsPrefix(user_map[u].events, user_map'[u].events)]_vars

\* C32: while the namespace deletion of a delete is outstanding, the record
\* of its user is in the map with status terminating and an empty queue.
C32_TerminatingWhileDeleting ==
    \A t \in Tasks :
       pc[t] = "delete_namespace" =>
          /\ usr[t] \in DOMAIN user_map
          /\ user_map[usr[t]].status = "terminating"
          /\ user_map[usr[t]].events = <<>>

\* the namespace of the latest create_namespace call of task t
created_namespace(t) ==
    LET I == {i \in DOMAIN calls[t] : calls[t][i][1] = "create_namespace"}
    IN  calls[t][CHOOSE i \in I : \A j \in I : j <= i][2]

\* C37: a delete that begins after a create for its user has succeeded asks
\* the cluster to delete the namespace that create made, so that this
\* namespace is gone once the deletion has succeeded.
C37_DeleteNamesCreatedNamespace ==
    [][\A t, d \in Tasks :
          /\ op[t] = "create" /\ result[t] = "ok"
          /\ pc[d] = "idle" /\ pc'[d] = "delete_namespace"
          /\ usr'[d] = usr[t]
          => calls'[d][Len(calls'[d])] =
                Call("delete_namespace", created_namespace(t))]_vars

\* the errors a create ends with after it inserted the record
CreateFailures == {"NSCreationError", "ApiError", "NamespaceCollision"}

\* a create for u failed after it inserted the record
failed_create(u) ==
    \E t \in Tasks :
       op[t] = "create" /\ usr[t] = u /\ result[t] \in CreateFailures

\* a delete for u completed successfully
deleted_ok(u) ==
    \E d \in Tasks : op[d] = "delete" /\ usr[d] = u /\ result[d] = "ok"

\* C38: when a create for a user fails after the insertion, the record is
\* in the map unless a delete for the user has completed successfully; from
\* then on only a delete that completes successfully takes the record out,
\* and as long as it is in, a create that arrives for the user is rejected.
C38_FailedCreateBlocksCreate ==
    [][\A u \in Users :
          /\ failed_create(u)' /\ ~failed_create(u) /\ ~deleted_ok(u)'
                => u \in DOMAIN user_map'
          /\ failed_create(u) /\ u \in DOMAIN user_map
                => /\ u \notin DOMAIN user_map' =>
                         \E d \in Tasks :
                            /\ op[d] = "delete" /\ usr[d] = u
                            /\ pc[d] = "delete_namespace"
                            /\ result'[d] = "ok"
                   /\ \A t \in Tasks :
                         pc[t] = "idle" /\ op'[t] = "create" /\ usr'[t] = u
                            => /\ result'[t] \in {"AlreadyExists",
                                                  "Forbidden"}
                               /\ user_map' = user_map]_vars

\* C38 witness: a create for rachel failed after the insertion, no delete
\* for rachel has completed, and another create for rachel was rejected
\* because of the record that is still in the map
C38_Witness ==
    /\ failed_create("rachel")
    /\ ~deleted_ok("rachel")
    /\ "rachel" \in DOMAIN user_map
    /\ user_map["rachel"].status = "starting"
    /\ \E t \in Tasks :
          op[t] = "create" /\ usr[t] = "rachel"
             /\ result[t] = "AlreadyExists"

\* ------------------------------------------ claims on the secret merge (2)

\* C33: in a user secret created from references none of which names the
\* reserved key, a key that a configured reference names holds the value
\* that key has in the source secret the reference names.
C33_KeyFromNamedSource ==
    /\ user_secret # <<>>
    /\ \A j \in 1..Len(secret_list) : secret_list[j].secretKey # "token"
    => \A i \in 1..Len(secret_list) :
          LET S == secret_list[i].secretRef
              K == secret_list[i].secretKey
          IN  K \in DOMAIN user_secret[1] /\ K # "token" =>
                 /\ K \in cluster_secrets[S]
                 /\ user_secret[1][K] = secret_value(S, K)

\* ------------------------------------------------- claims on the node cache

\* the digests of the images in the cached list of the node at place k
CachedDigests(k) ==
    {node_cache[k].cached[j].digest : j \in DOMAIN node_cache[k].cached}

eligible_nodes_of(nodes) ==
    LET is_eligible(x) == x.eligible
    IN  SelectSeq(nodes, is_eligible)

\* _nodes_present
nodes_present(img, nodes) ==
    LET is_present(x) == x.name \in img.nodes
    IN  SelectSeq(nodes, is_present)

\* a _nodes_missing that leaves the test out
nodes_missing_all(img, nodes) == nodes

\* _nodes_missing
nodes_missing_in(img, nodes) ==
    LET is_missing(x) == x.name \notin img.nodes
    IN  SelectSeq(nodes, is_missing)

\* NodeImage and NodeImageWithMissing as get_prepulls fills them in; a node
\* is told by its name
NodeImage(img, nodes) ==
    [path |-> img.path, digest |-> img.digest,
     nodes |-> [k \in DOMAIN nodes_present(img, nodes) |->
                  nodes_present(img, nodes)[k].name]]

NodeImageWithMissing(img, nodes) ==
    [path |-> img.path, digest |-> img.digest,
     nodes |-> [k \in DOMAIN nodes_present(img, nodes) |->
                  nodes_present(img, nodes)[k].name],
     missing |-> [k \in DOMAIN nodes_missing_in(img, nodes) |->
                    nodes_missing_in(img, nodes)[k].name]]

\* the loop of get_prepulls over menu_node_images
RECURSIVE prepuller_contents(_, _, _)
prepuller_contents(menu, nodes, images) ==
    IF menu = <<>>
    THEN images
    ELSE LET img == Head(menu).value
         IN  prepuller_contents(
                 Tail(menu), nodes,
                 IF img.prepulled
                 THEN [images EXCEPT
                         !.prepulled = Append(@, NodeImage(img, nodes))]
                 ELSE [images EXCEPT
                         !.pending =
                            Append(@, NodeImageWithMissing(img, nodes))])

\* get_prepulls is called and get_image_data has answered
StatusInit ==
    /\ all_images_by_node \in NodeContainers(MaxEntries)
    /\ enabled_nodes \in SUBSET Nodes
    /\ config_cycle = NoCycle
    /\ inv_pc = "get_image_data"
    /\ image_list = <<>>
    /\ enabled_prepulled_images = <<>>
    /\ node_cache = <<>>
    /\ tag_counts \in TagCounts
    /\ menu_pc = "get_prepulls"
    /\ desired_menu = EmptyDict
    /\ menu_images = EmptyDict
    /\ prepulls = <<>>
    /\ CompareIdle
    /\ LabIdle /\ SecretsIdle /\ PrepullIdle

\* get_prepulls after get_current_image_and_node_state
get_prepulls ==
    /\ menu_pc = "get_prepulls"
    /\ inv_pc = "returned"
    /\ LET eligible_nodes == eligible_nodes_of(node_cache)
           desired == filter_node_images_to_desired_menu(
                          enabled_prepulled_images, tag_counts)
       IN  /\ desired_menu' = desired
           /\ prepulls' =
                  <<prepuller_contents(desired, eligible_nodes,
                                       [prepulled |-> <<>>,
                                        pending |-> <<>>])>>
    /\ menu_pc' = "returned"
    /\ UNCHANGED <<tag_counts, menu_images>>
    /\ UNCHANGED <<inventory_vars, compare_vars>>
    /\ UNCHANGED <<lab_vars, secret_vars, prepull_vars>>

NextStatus ==
    \/ get_current_image_and_node_state
    \/ get_prepulls

SpecStatus == StatusInit /\ [][NextStatus]_vars

\* ---------------------------------------------- claims on the prepull status

\* the names of the nodes a status list entry gives
NamesOf(list) == {list[k] : k \in DOMAIN list}

\* the eligible nodes of the snapshot
EligibleNames ==
    {node_cache[k].name : k \in {j \in DOMAIN node_cache :
                                    node_cache[j].eligible}}

\* the places of the image with digest dg in a list of the status
PlacesOf(list, dg) == {k \in DOMAIN list : list[k].digest = dg}

\* C34: in the status get_prepulls returns every image of the desired menu
\* is once in prepulled or once in pending and not in both, and the lists
\* hold nothing else; a pending image has a missing node, its present and
\* its missing nodes share no node and are together the eligible nodes; the
\* present nodes of a prepulled image are the eligible nodes.
C34_StatusPartitionsMenu ==
    menu_pc = "returned" /\ prepulls # <<>> =>
       LET images == prepulls[1]
       IN  /\ \A k \in DOMAIN desired_menu :
                 Cardinality(PlacesOf(images.prepulled,
                                      desired_menu[k].value.digest))
                 + Cardinality(PlacesOf(images.pending,
                                        desired_menu[k].value.digest)) = 1
           /\ Len(images.prepulled) + Len(images.pending)
                 = Len(desired_menu)
           /\ \A k \in DOMAIN images.pending :
                 LET p == images.pending[k]
                 IN  /\ NamesOf(p.nodes) \cap NamesOf(p.missing) = {}
                     /\ NamesOf(p.nodes) \cup NamesOf(p.missing)
                           = EligibleNames
                     /\ p.missing # <<>>
           /\ \A k \in DOMAIN images.prepulled :
                 NamesOf(images.prepulled[k].nodes) = EligibleNames

\* C34 witness: a status with a prepulled image and a pending image that
\* one eligible node has and another lacks
C34_Witness ==
    /\ menu_pc = "returned" /\ prepulls # <<>>
    /\ Len(prepulls[1].prepulled) = 1
    /\ Len(prepulls[1].pending) = 1
    /\ Len(prepulls[1].pending[1].nodes) = 1
    /\ Len(prepulls[1].pending[1].missing) = 1

\* ------------------------------------------------------------ the tag list
\* models/v1/domain/tag.py: TagList.sort_all_tags

\* number of tags a TagList holds
MaxTags == 3

\* PartialTag.__lt__ on two tags of one type
tag_lt(a, b) == compare(a, b).value = -1

\* list.sort(reverse=True): a stable sort that uses __lt__ only; an element
\* goes in front of the first element that is less than it
RECURSIVE insert_descending(_, _)
insert_descending(sorted, x) ==
    IF sorted = <<>>
    THEN <<x>>
    ELSE IF tag_lt(Head(sorted), x)
    THEN <<x>> \o sorted
    ELSE <<Head(sorted)>> \o insert_descending(Tail(sorted), x)

RECURSIVE sort_reverse(_, _)
sort_reverse(list, sorted) ==
    IF list = <<>>
    THEN sorted
    ELSE sort_reverse(Tail(list), insert_descending(sorted, Head(list)))

\* the second loop of sort_all_tags: new_tags[tag.image_type].append(tag)
bucket(tags, tag_type) ==
    LET of_type(t) == t.image_type = tag_type
    IN  SelectSeq(tags, of_type)

\* the third loop of sort_all_tags: whatever tag_type is, the bucket that
\* is sorted is new_tags[tag.image_type], `tag` being what the second loop
\* left in it, the last tag of all_tags
sorted_buckets(tags) ==
    LET last == tags[Len(tags)].image_type
    IN  [k \in DOMAIN TagType |->
           IF TagType[k] = last
           THEN sort_reverse(bucket(tags, TagType[k]), <<>>)
           ELSE bucket(tags, TagType[k])]

\* flat_tags.extend(new_tags[k]) for the buckets from place k on
RECURSIVE flatten(_, _)
flatten(buckets, k) ==
    IF k > Len(buckets)
    THEN <<>>
    ELSE buckets[k] \o flatten(buckets, k + 1)

\* the TagLists of at most n tags of the pool
TagLists(n) ==
    {[k \in DOMAIN t |-> from_tag(t[k], aliasTags)] :
        t \in SeqUpTo(TagPool, n)}

\* a TagList is at hand
TagListInit ==
    /\ config_aliases = aliasTags
    /\ tagobjs = <<>>
    /\ compared = <<>>
    /\ all_tags \in TagLists(MaxTags)
    /\ former_tags = <<>>
    /\ sort_pc = "uncalled"
    /\ InventoryIdle /\ MenuIdle
    /\ LabIdle /\ SecretsIdle /\ PrepullIdle

\* TagList.sort_all_tags.  With an empty all_tags the second loop never
\* binds `tag`, and the third loop's use of it raises UnboundLocalError.
sort_all_tags ==
    /\ sort_pc = "uncalled"
    /\ former_tags' = all_tags
    /\ IF all_tags = <<>>
       THEN /\ sort_pc' = "UnboundLocalError"
            /\ UNCHANGED all_tags
       ELSE /\ sort_pc' = "returned"
            /\ all_tags' = flatten(sorted_buckets(all_tags), 1)
    /\ UNCHANGED <<config_aliases, tagobjs, compared>>
    /\ UNCHANGED <<inventory_vars, menu_vars>>
    /\ UNCHANGED <<lab_vars, secret_vars, prepull_vars>>

NextTagList ==
    \/ sort_all_tags

SpecTagList == TagListInit /\ [][NextTagList]_vars

\* ------------------------------------------------- claims on the tag list

\* the place of a type in TagType
TypeRank(tag_type) == CHOOSE k \in DOMAIN TagType : TagType[k] = tag_type

\* how often the tag object x is in a list
CountOf(list, x) == Cardinality({k \in DOMAIN list : list[k] = x})

\* C36: sort_all_tags returns for every list, the empty one too, and then
\* all_tags holds the tags it held before, each as often as before, the
\* types in the order of TagType and the tags of one type in descending
\* order.
C36_SortedByTypeThenDescending ==
    /\ sort_pc \in {"uncalled", "returned"}
    /\ sort_pc = "returned" =>
          /\ Len(all_tags) = Len(former_tags)
          /\ \A k \in DOMAIN former_tags :
                CountOf(all_tags, former_tags[k])
                   = CountOf(former_tags, former_tags[k])
          /\ \A i, j \in DOMAIN all_tags :
                i < j =>
                   /\ TypeRank(all_tags[i].image_type)
                         <= TypeRank(all_tags[j].image_type)
                   /\ all_tags[i].image_type = all_tags[j].image_type
                         => ~tag_lt(all_tags[i], all_tags[j])

\* ------------------------------------------- claims on the pull campaigns

\* C39: a tick adds one entry to schedulers at a time, and when it adds the
\* entry of an image the entry of the image it pulled before is gone; pull
\* pods are created only in the step that adds the entry of their image,
\* and while a campaign is being closed the pods not yet finished are those
\* of the image whose entry is in the map.
C39_CampaignsDoNotOverlap ==
    [][/\ Cardinality(DOMAIN schedulers' \ DOMAIN schedulers) <= 1
       /\ \A k \in DOMAIN schedulers' \ DOMAIN schedulers :
             /\ xpc = "scheduler_close" => cur \notin DOMAIN schedulers'
             /\ xpc' = "scheduler_close" => cur' = k
       /\ \A p \in pods' \ pods :
             p.fate = "spawned" =>
                /\ p.image \in DOMAIN schedulers' \ DOMAIN schedulers
                /\ p.node \in schedulers'[p.image]
       /\ xpc' = "scheduler_close" =>
             /\ cur' \in DOMAIN schedulers'
             /\ \A p \in pods' : p.fate = "spawned" => p.image = cur']_vars

\* C39 witness: the second campaign of a tick is being closed; the pods of
\* the first are finished and its entry is gone
C39_Witness ==
    /\ xpc = "scheduler_close"
    /\ DOMAIN schedulers = {cur}
    /\ \E p, q \in pods :
          /\ p.fate # "spawned" /\ p.image # cur
          /\ q.fate = "spawned" /\ q.image = cur

====
